---- MODULE Spec2Model ----
(***************************************************************************)
(* A model of src/AgentClass.py: the fence stripper, the code generator,  *)
(* the sandboxed executor run_python_chart with its SQLProxy query        *)
(* gateway, and the conversation controller Agent.answer.                 *)
(*                                                                         *)
(* Text is a sequence of one-character strings.  A generated script is a  *)
(* text whose lines are statements; a whole simple statement of the       *)
(* script is written as one symbol of the text (the S_... definitions     *)
(* below give the Python line each symbol stands for).                    *)
(***************************************************************************)
EXTENDS Integers, Sequences, FiniteSets, TLC

VARIABLES
    history,        \* Agent.history: the stored turns
    SAFE_BUILTINS,  \* the module-level dict handed to every exec as __builtins__
    lastStrip,      \* outcome of the last _strip_code_fences call
    lastGen,        \* outcome of the last HFRouterCodeGenerator.generate call
    lastRun,        \* outcome of the last run_python_chart call
    lastAnswer      \* outcome of the last Agent.answer call

vars == <<history, SAFE_BUILTINS, lastStrip, lastGen, lastRun, lastAnswer>>

----------------------------------------------------------------------------
(* Bounds of the model *)

MaxSegs == 4        \* segments in a text handed to _strip_code_fences / the model reply
MaxLines == 2       \* statements in a script handed to run_python_chart directly
MaxSqlSegs == 3     \* segments in a statement handed to sql.query
MaxHistory == 6     \* stored turns after which the model stops asking

----------------------------------------------------------------------------
(* Text primitives: str.strip, str.lower, str.upper, str.startswith, in    *)

WS == {" ", "\n"}

UpperChars == <<"A","B","C","D","E","F","G","H","I","J","K","L","M",
                "N","O","P","Q","R","S","T","U","V","W","X","Y","Z">>
LowerChars == <<"a","b","c","d","e","f","g","h","i","j","k","l","m",
                "n","o","p","q","r","s","t","u","v","w","x","y","z">>

LowerChar(c) ==
    IF \E i \in 1..Len(UpperChars) : UpperChars[i] = c
    THEN LowerChars[CHOOSE i \in 1..Len(UpperChars) : UpperChars[i] = c]
    ELSE c

UpperChar(c) ==
    IF \E i \in 1..Len(LowerChars) : LowerChars[i] = c
    THEN UpperChars[CHOOSE i \in 1..Len(LowerChars) : LowerChars[i] = c]
    ELSE c

Lower(s) == [i \in 1..Len(s) |-> LowerChar(s[i])]
Upper(s) == [i \in 1..Len(s) |-> UpperChar(s[i])]

Drop(s, n) == SubSeq(s, n + 1, Len(s))

\* Positions of the characters of s that are not whitespace.
Inked(s) == {i \in 1..Len(s) : s[i] \notin WS}

LStrip(s) ==
    IF Inked(s) = {} THEN <<>>
    ELSE SubSeq(s, CHOOSE i \in Inked(s) : \A j \in Inked(s) : i <= j, Len(s))

RStrip(s) ==
    IF Inked(s) = {} THEN <<>>
    ELSE SubSeq(s, 1, CHOOSE i \in Inked(s) : \A j \in Inked(s) : i >= j)

Strip(s) == RStrip(LStrip(s))

StartsWith(s, p) == Len(s) >= Len(p) /\ SubSeq(s, 1, Len(p)) = p

Contains(s, p) ==
    \E i \in 0..(Len(s) - Len(p)) : SubSeq(s, i + 1, i + Len(p)) = p

RECURSIVE Concat(_)
Concat(ss) == IF ss = <<>> THEN <<>> ELSE Head(ss) \o Concat(Tail(ss))

----------------------------------------------------------------------------
\* _strip_code_fences: re.sub deletes, from s.strip(), a fence at the start
\* (three backticks, an optional "python", then any whitespace) and a fence
\* at the end (three backticks before the end of the text); the result is
\* stripped again.

\* The backtick character (the lexer of TLA+ accepts no backtick in a string).
Backtick == "<backtick>"

Fence == <<Backtick, Backtick, Backtick>>
Python == <<"p", "y", "t", "h", "o", "n">>

\* Characters consumed at position 0 by the first alternative, 0 when it
\* does not match there.  Both quantifiers are greedy and nothing follows
\* them, so the match never backtracks.
LeadMatchLen(t) ==
    IF ~StartsWith(t, Fence) THEN 0
    ELSE LET afterTag == IF StartsWith(Drop(t, 3), Python) THEN 9 ELSE 3
             rest == Drop(t, afterTag)
         IN  afterTag + (Len(rest) - Len(LStrip(rest)))

\* The end anchor without re.MULTILINE: the end of the text, or just before a newline
\* that ends the text.
AtDollar(t, pos) ==
    \/ pos = Len(t)
    \/ pos = Len(t) - 1 /\ t[Len(t)] = "\n"

\* Start positions (1-based), after the first from characters, where the
\* second alternative matches.
TailMatches(t, from) ==
    {p \in (from + 1)..(Len(t) - 2) :
        SubSeq(t, p, p + 2) = Fence /\ AtDollar(t, p + 2)}

\* re.sub: the non-overlapping matches, scanned left to right, deleted.
FenceSub(t) ==
    LET lead == LeadMatchLen(t)
        tails == TailMatches(t, lead)
    IN  IF tails = {} THEN Drop(t, lead)
        ELSE LET p == CHOOSE x \in tails : \A y \in tails : x <= y
             IN  SubSeq(t, lead + 1, p - 1) \o Drop(t, p + 2)

\* (CHOOSE over a one-element set names a value that is computed once.)
_strip_code_fences(s) ==
    CHOOSE r \in {Strip(u) : u \in {FenceSub(t) : t \in {Strip(s)}}} : TRUE

----------------------------------------------------------------------------
(* Values of the executed script's namespaces *)

Value(type, name, id, explanation) ==
    [type |-> type, name |-> name, id |-> id, explanation |-> explanation]

None == Value("NoneType", "None", 0, <<>>)
Handle(name) == Value("handle", name, 0, <<>>)

\* ChartResult(kind, obj, explanation); id is the object's identity.
ChartResult(kind, id, explanation) == Value("ChartResult", kind, id, explanation)

\* as_plotly(fig, explanation)
as_plotly(id, explanation) == ChartResult("plotly", id, explanation)

isinstance_ChartResult(v) == v.type = "ChartResult"

Bind(f, name, val) ==
    [n \in (DOMAIN f) \cup {name} |-> IF n = name THEN val ELSE f[n]]

\* SAFE_BUILTINS as the module defines it.
SafeBuiltinNames ==
    {"abs", "all", "any", "enumerate", "len", "min", "max", "range", "sum",
     "sorted", "zip", "round", "__import__"}

\* Each name is bound to the host's callable of that name.
InitialBuiltins == [n \in SafeBuiltinNames |-> n]

\* The env dict of run_python_chart.  Its __builtins__ entry is the shared
\* SAFE_BUILTINS object itself, which the interpreter state carries as blt.
EnvNames ==
    {"__builtins__", "pd", "np", "duckdb", "plt", "px", "alt", "sql",
     "ChartResult", "as_plotly", "as_matplotlib", "as_altair",
     "normalize_str_series"}

env == [n \in EnvNames |-> Handle(n)]

----------------------------------------------------------------------------
(* The Query Gateway: assert_readonly and SQLProxy.query *)

Select == <<"s", "e", "l", "e", "c", "t">>

\* assert_readonly(sql): TRUE when it returns, FALSE when it raises ValueError.
assert_readonly_unstripped(sql) == StartsWith(Lower(sql), Select)

assert_readonly(sql) == StartsWith(Lower(Strip(sql)), Select)

\* SQLProxy.query(sql_text) on a proxy whose engine log is `engine`.
\* engineOk: whether the embedded engine accepts the statement.
\* Returns the exception raised ("" for none) and the engine's log.
SQLProxy_query(sql_text, engine, engineOk) ==
    IF ~assert_readonly(sql_text)
    THEN [exc |-> "ValueError", engine |-> engine]
    ELSE [exc |-> IF engineOk THEN "" ELSE "duckdb.Error",
          engine |-> Append(engine, sql_text)]

----------------------------------------------------------------------------
(* Scripts.  Each symbol stands for one line of Python. *)

S_RESULT == "result = as_plotly(px, 'e')"
S_INT    == "result = 1"
S_GLOBAL == "global result; result = as_plotly(px, 'e')"
S_DIV    == "1/0"
S_EXIT   == "__import__('sys').exit()"
S_IMPORT == "import os"
S_OPEN   == "open('x', 'w')"
S_LEAK   == "__builtins__['open'] = __import__('builtins').open"
S_QUERY  == "df = sql.query(q)"

Statements ==
    {S_RESULT, S_INT, S_GLOBAL, S_DIV, S_EXIT, S_IMPORT, S_OPEN, S_LEAK, S_QUERY}

Letters == {LowerChars[i] : i \in 1..Len(LowerChars)}

\* The text split at its newlines.
SplitLines(code) ==
    LET nl == {i \in 1..Len(code) : code[i] = "\n"}
        starts == {1} \cup {i + 1 : i \in nl}
        EndOf(b) == IF \E i \in nl : i >= b
                    THEN (CHOOSE i \in nl : i >= b /\ \A j \in nl : j >= b => i <= j) - 1
                    ELSE Len(code)
        StartNo(k) == CHOOSE b \in starts : Cardinality({c \in starts : c < b}) = k - 1
    IN  [k \in 1..Cardinality(starts) |-> SubSeq(code, StartNo(k), EndOf(StartNo(k)))]

IsBlank(line) == \A i \in 1..Len(line) : line[i] = " "

\* What compiling one line gives: "" for a blank line, a statement symbol,
\* "<name>" for a bare identifier, or the error compile() raises.  A line
\* holding several words is reported as a SyntaxError.
CompileLine(line) ==
    LET body == RStrip(line)
    IN  IF IsBlank(line) THEN ""
        ELSE IF \E i \in 1..Len(line) : line[i] = Backtick THEN "SyntaxError"
        ELSE IF line[1] = " " THEN "IndentationError"
        ELSE IF Len(body) = 1 /\ body[1] \in Statements THEN body[1]
        ELSE IF \A i \in 1..Len(body) : body[i] \in Letters THEN "<name>"
        ELSE "SyntaxError"

CompileErrors == {"SyntaxError", "IndentationError"}

\* compile(code): the error it raises, or the statements in order.
Compile(code) ==
    LET Result(toks) ==
            LET bad == {i \in 1..Len(toks) : toks[i] \in CompileErrors}
            IN  IF bad # {}
                THEN [exc |-> toks[CHOOSE i \in bad : \A j \in bad : i <= j],
                      prog |-> <<>>]
                ELSE [exc |-> "", prog |-> SelectSeq(toks, LAMBDA t : t # "")]
    IN  CHOOSE r \in {Result([i \in 1..Len(lines) |-> CompileLine(lines[i])]) :
                        lines \in {SplitLines(code)}} : TRUE

\* Name resolution of the executed code: locals, globals, then builtins.
Resolves(x, name) ==
    name \in (DOMAIN x.loc) \cup (DOMAIN x.glob) \cup (DOMAIN x.blt)

Raise(x, exc) == [x EXCEPT !.exc = exc]

\* One statement executed in interpreter state x.
ExecStmt(x, stmt, q, engineOk) ==
    CASE stmt = S_RESULT ->
           [x EXCEPT !.nobj = @ + 1,
                     !.loc = Bind(@, "result", as_plotly(x.nobj + 1, <<"e">>))]
      [] stmt = S_INT ->
           [x EXCEPT !.loc = Bind(@, "result", Value("int", "1", 0, <<>>))]
      [] stmt = S_GLOBAL ->
           [x EXCEPT !.nobj = @ + 1,
                     !.glob = Bind(@, "result", as_plotly(x.nobj + 1, <<"e">>))]
      [] stmt = S_DIV -> Raise(x, "ZeroDivisionError")
      [] stmt = S_EXIT ->
           IF Resolves(x, "__import__") THEN Raise(x, "SystemExit")
           ELSE Raise(x, "NameError")
      [] stmt = S_IMPORT ->
           IF "__import__" \in DOMAIN x.blt
           THEN [x EXCEPT !.loc = Bind(@, "os", Handle("os")),
                          !.imported = Append(@, "os")]
           ELSE Raise(x, "ImportError")
      [] stmt = S_OPEN ->
           IF Resolves(x, "open") THEN [x EXCEPT !.disk = Append(@, "x")]
           ELSE Raise(x, "NameError")
      [] stmt = S_LEAK ->
           IF Resolves(x, "__import__")
           THEN [x EXCEPT !.blt = Bind(@, "open", "open")]
           ELSE Raise(x, "NameError")
      [] stmt = S_QUERY ->
           LET r == SQLProxy_query(q, x.engine, engineOk)
           IN  [x EXCEPT !.engine = r.engine,
                         !.refused = IF r.exc = "ValueError" THEN Append(@, q) ELSE @,
                         !.exc = r.exc]
      [] OTHER -> Raise(x, "NameError")

\* The statements run in order until one raises.
RECURSIVE ExecProg(_, _, _, _)
ExecProg(x, prog, q, engineOk) ==
    IF prog = <<>> \/ x.exc # "" THEN x
    ELSE CHOOSE r \in {ExecProg(y, Tail(prog), q, engineOk) :
                         y \in {ExecStmt(x, Head(prog), q, engineOk)}} : TRUE

\* exec(code, env, local_ns)
exec(code, blt, q, engineOk) ==
    LET x0 == [loc |-> <<>>, glob |-> env, blt |-> blt, engine |-> <<>>,
               refused |-> <<>>, disk |-> <<>>, imported |-> <<>>, nobj |-> 0,
               exc |-> ""]
    IN  CHOOSE r \in {ExecProg([x0 EXCEPT !.exc = c.exc], c.prog, q, engineOk) :
                        c \in {Compile(code)}} : TRUE

\* Exceptions that derive from BaseException but not from Exception.
BaseOnly == {"SystemExit"}

----------------------------------------------------------------------------
(* run_python_chart(code, datasets) *)

\* A dataset is a DataFrame ("df") or an object that is none ("bad").
DatasetChoices == {[data |-> "df"], [data |-> "bad"]}

\* What a call leaves to observe.  code: the script it was given;
\* loc: local_ns when the script ended;
\* glob: the names the script added to env; startBlt: SAFE_BUILTINS as the
\* call found it; scriptExc: the exception that ended the script.
NoRun ==
    [code |-> <<>>, outcome |-> "none", value |-> None, trace |-> "",
     execs |-> 0, startBlt |-> InitialBuiltins, loc |-> <<>>, glob |-> <<>>,
     scriptExc |-> "", engine |-> <<>>, refused |-> <<>>, disk |-> <<>>,
     imported |-> <<>>, tables |-> {}]

\* SQLProxy.__init__: duckdb.connect, then register every dataset.
\* The exception it raises, "" for none.
SQLProxy_init(datasets, connectOk) ==
    IF ~connectOk THEN "duckdb.Error"
    ELSE IF \E n \in DOMAIN datasets : datasets[n] = "bad" THEN "duckdb.Error"
    ELSE ""

\* result = local_ns.get("result")
local_ns_get_result(loc) == IF "result" \in DOMAIN loc THEN loc["result"] ELSE None

\* The whole call, with blt the state of SAFE_BUILTINS when it starts.
\* outcome: "returned", "RuntimeError" (raised by the except clause), or
\* the exception that passed the except clause.  blt: SAFE_BUILTINS after.
run_python_chart(code, datasets, blt, connectOk, q, engineOk) ==
    LET prep == SQLProxy_init(datasets, connectOk)
        AfterExec(x) ==
            LET result == local_ns_get_result(x.loc)
                added == {n \in DOMAIN x.glob : n \notin EnvNames}
                ran == [NoRun EXCEPT !.code = code, !.execs = 1, !.startBlt = blt, !.loc = x.loc,
                                     !.glob = [n \in added |-> x.glob[n]],
                                     !.scriptExc = x.exc,
                                     !.engine = x.engine, !.refused = x.refused,
                                     !.disk = x.disk, !.imported = x.imported,
                                     !.tables = DOMAIN datasets]
            IN  IF x.exc \in BaseOnly
                THEN [run |-> [ran EXCEPT !.outcome = x.exc, !.trace = ""],
                      blt |-> x.blt]
                ELSE IF x.exc # ""
                THEN [run |-> [ran EXCEPT !.outcome = "RuntimeError", !.trace = x.exc],
                      blt |-> x.blt]
                ELSE IF ~isinstance_ChartResult(result)
                THEN [run |-> [ran EXCEPT !.outcome = "RuntimeError",
                                          !.trace = "ValueError"],
                      blt |-> x.blt]
                ELSE [run |-> [ran EXCEPT !.outcome = "returned", !.value = result],
                      blt |-> x.blt]
    IN  IF prep # ""
        THEN [run |-> [NoRun EXCEPT !.code = code, !.outcome = "RuntimeError",
                                    !.trace = prep, !.startBlt = blt],
              blt |-> blt]
        ELSE CHOOSE r \in {AfterExec(x) : x \in {exec(code, blt, q, engineOk)}} : TRUE

----------------------------------------------------------------------------
(* HFRouterCodeGenerator.generate(req) *)

\* What the chat completion gives: a text, no content, or an error.
TextReply(t) == [kind |-> "text", text |-> t]
NoContent == [kind |-> "none", text |-> <<>>]
CallFails == [kind |-> "error", text |-> <<>>]

\* get_dataset_schema reads df.columns of every dataset.
get_dataset_schema(datasets) ==
    IF \E n \in DOMAIN datasets : datasets[n] = "bad" THEN "AttributeError" ELSE ""

\* The exception generate raises ("" for none) and the code it returns.
generate(reply, datasets) ==
    IF get_dataset_schema(datasets) # ""
    THEN [exc |-> get_dataset_schema(datasets), code |-> <<>>]
    ELSE IF reply.kind = "error" THEN [exc |-> "APIError", code |-> <<>>]
    ELSE IF reply.kind = "none" THEN [exc |-> "AttributeError", code |-> <<>>]
    ELSE [exc |-> "", code |-> _strip_code_fences(reply.text)]

----------------------------------------------------------------------------
(* Agent.answer(question, dfs) *)

continuation_keywords ==
    { <<"n","o","w">>, <<"a","g","a","i","n">>, <<"a","l","s","o">>,
      <<"s","a","m","e">>, <<"c","o","n","t","i","n","u","e">>,
      <<"c","o","m","p","a","r","e">>, <<"f","i","l","t","e","r">>,
      <<"o","n","l","y">>, <<"a","d","d">>, <<"c","h","a","n","g","e">>,
      <<"m","o","d","i","f","y">>, <<"r","e","d","o">>,
      <<"u","s","e"," ","p","r","e","v","i","o","u","s">>,
      <<"p","r","e","v","i","o","u","s">>, <<"l","a","s","t">> }

HistoryCap == 4

User == <<"u","s","e","r">>
Assistant == <<"a","s","s","i","s","t","a","n","t">>

Turn(role, content) == [role |-> role, content |-> content]

\* any(kw in q_lower for kw in continuation_keywords)
is_continuation_cased(question) ==
    \E kw \in continuation_keywords : Contains(question, kw)

is_continuation(question) ==
    \E kw \in continuation_keywords : Contains(Lower(question), kw)

\* The history after the clearing and the appended user turn.
record_user_turn(h, question) ==
    Append(IF ~is_continuation(question) THEN <<>> ELSE h, Turn(User, question))

\* self.history[-4:]
limited_history_all(h) == h

limited_history(h) ==
    IF Len(h) <= HistoryCap THEN h ELSE SubSeq(h, Len(h) - HistoryCap + 1, Len(h))

\* The ROLE: content lines of the turns, concatenated.
combined_question(turns) ==
    Concat([i \in 1..Len(turns) |->
              Upper(turns[i].role) \o <<":", " ">> \o turns[i].content \o <<"\n">>])

\* The history when the call ends: failed says that generate or
\* run_python_chart raised, and then nothing more is appended.
finish_turn_rollback(h, failed, explanation) ==
    IF failed THEN SubSeq(h, 1, Len(h) - 1)
    ELSE Append(h, Turn(Assistant, explanation))

finish_turn(h, failed, explanation) ==
    IF failed THEN h ELSE Append(h, Turn(Assistant, explanation))

NoAnswer ==
    [outcome |-> "none", exc |-> "", question |-> <<>>, before |-> <<>>,
     prompt |-> <<>>, window |-> <<>>, value |-> None]

\* The whole call: the history and SAFE_BUILTINS after it, and what the
\* caller sees.
answer(h, blt, question, datasets, reply) ==
    LET Seen(h2, window) ==
            [NoAnswer EXCEPT !.question = question, !.before = h,
                             !.prompt = combined_question(window), !.window = window]
        GenFailed(h2, window, gen) ==
            [history |-> finish_turn(h2, TRUE, <<>>), blt |-> blt, gen |-> gen,
             run |-> NoRun,
             seen |-> [Seen(h2, window) EXCEPT !.outcome = "raised", !.exc = gen.exc]]
        Ran(h2, window, gen, r) ==
            [history |-> finish_turn(h2, r.run.outcome # "returned",
                                     r.run.value.explanation),
             blt |-> r.blt, gen |-> gen, run |-> r.run,
             seen |-> IF r.run.outcome # "returned"
                      THEN [Seen(h2, window) EXCEPT !.outcome = "raised",
                                                    !.exc = r.run.outcome]
                      ELSE [Seen(h2, window) EXCEPT !.outcome = "returned",
                                                    !.value = r.run.value]]
        Generated(h2, window, gen) ==
            IF gen.exc # "" THEN GenFailed(h2, window, gen)
            ELSE CHOOSE a \in {Ran(h2, window, gen, r) :
                     r \in {run_python_chart(gen.code, datasets, blt, TRUE, <<>>, TRUE)}} :
                     TRUE
        Recorded(h2) ==
            CHOOSE a \in {Generated(h2, window, gen) :
                     window \in {limited_history(h2)},
                     gen \in {generate(reply, datasets)}} : TRUE
    IN  CHOOSE a \in {Recorded(h2) : h2 \in {record_user_turn(h, question)}} : TRUE

----------------------------------------------------------------------------
(* Inputs *)

\* The texts made of at most n of the given segments.
RECURSIVE TextsUpTo(_, _)
TextsUpTo(segs, n) ==
    IF n = 0 THEN {<<>>}
    ELSE LET shorter == TextsUpTo(segs, n - 1)
         IN  shorter \cup {t \o g : t \in shorter, g \in segs}

\* Texts handed to _strip_code_fences, and the model's replies.
FenceSegments == {Fence, Python, <<" ">>, <<"\n">>, <<S_RESULT>>}
Texts == TextsUpTo(FenceSegments, MaxSegs)
Replies == {TextReply(t) : t \in Texts} \cup {NoContent, CallFails}

\* Scripts handed to run_python_chart: lines joined by newlines.
CodeLines ==
    {<<st>> : st \in Statements} \cup {Python, Fence, <<" ", S_RESULT>>}

RECURSIVE ScriptsUpTo(_)
ScriptsUpTo(n) ==
    IF n = 0 THEN {<<>>}
    ELSE LET shorter == ScriptsUpTo(n - 1)
         IN  shorter \cup CodeLines
                     \cup {c \o <<"\n">> \o l : c \in shorter \ {<<>>}, l \in CodeLines}

Codes == ScriptsUpTo(MaxLines)

\* Statements a script hands to sql.query.
SqlSegments ==
    {Select, <<"S","e","L","E","c","T">>, <<"S","e","l">>, <<"e","c","t">>,
     <<" ">>, <<"\n">>, <<"d","r","o","p">>, <<"1">>}
SqlTexts == TextsUpTo(SqlSegments, MaxSqlSegs)

ScriptQueries ==
    {Select \o <<" ", "1">>, <<" ", "S","e","l","e","c","t">>, <<"d","r","o","p">>}

QueryCodes == {<<S_QUERY>>, <<S_QUERY, "\n", S_RESULT>>}

\* Questions put to the agent, and what the model answers them with.
Questions ==
    {<<"p","l","o","t">>, <<"A","l","s","o">>, <<"k","n","o","w">>}

AgentReplies ==
    {TextReply(Fence \o Python \o <<"\n", S_RESULT, "\n">> \o Fence),
     TextReply(<<S_DIV>>), TextReply(<<>>), CallFails}

----------------------------------------------------------------------------
(* The state machine *)

NoStrip == [called |-> FALSE, arg |-> <<>>, out |-> <<>>]
NoGen == [outcome |-> "none", exc |-> "", reply |-> NoContent, code |-> <<>>]

Init ==
    /\ history = <<>>
    /\ SAFE_BUILTINS = InitialBuiltins
    /\ lastStrip = NoStrip
    /\ lastGen = NoGen
    /\ lastRun = NoRun
    /\ lastAnswer = NoAnswer

GenOutcome(reply, gen) ==
    [outcome |-> IF gen.exc = "" THEN "returned" ELSE "raised",
     exc |-> gen.exc, reply |-> reply, code |-> gen.code]

StripCall(s) ==
    /\ lastStrip' = [called |-> TRUE, arg |-> s, out |-> _strip_code_fences(s)]
    /\ UNCHANGED <<history, SAFE_BUILTINS, lastGen, lastRun, lastAnswer>>

Generate(reply, datasets) ==
    /\ lastGen' = GenOutcome(reply, generate(reply, datasets))
    /\ UNCHANGED <<history, SAFE_BUILTINS, lastStrip, lastRun, lastAnswer>>

RunPythonChart(code, datasets, connectOk, q, engineOk) ==
    \E r \in {run_python_chart(code, datasets, SAFE_BUILTINS, connectOk, q, engineOk)} :
        /\ lastRun' = r.run
        /\ SAFE_BUILTINS' = r.blt
        /\ UNCHANGED <<history, lastStrip, lastGen, lastAnswer>>

Answer(question, datasets, reply) ==
    /\ Len(history) + 2 <= MaxHistory
    /\ \E a \in {answer(history, SAFE_BUILTINS, question, datasets, reply)} :
           /\ history' = a.history
           /\ SAFE_BUILTINS' = a.blt
           /\ lastGen' = GenOutcome(reply, a.gen)
           /\ lastRun' = IF a.gen.exc = "" THEN a.run ELSE lastRun
           /\ lastAnswer' = a.seen
    /\ UNCHANGED lastStrip

NextStrip == \E s \in Texts : StripCall(s)

NextGen == \E reply \in Replies, datasets \in DatasetChoices : Generate(reply, datasets)

NextExec ==
    \E code \in Codes, datasets \in DatasetChoices, connectOk \in BOOLEAN,
       engineOk \in BOOLEAN :
        \E q \in (IF \E i \in 1..Len(code) : code[i] = S_QUERY
                  THEN ScriptQueries ELSE {<<>>}) :
            RunPythonChart(code, datasets, connectOk, q, engineOk)

\* Scripts that query: the first call of a behaviour passes any of the
\* statements, a later call one of a short list.
NextQuery ==
    \/ /\ lastRun.outcome = "none"
       /\ \E code \in QueryCodes, q \in SqlTexts, engineOk \in BOOLEAN :
              RunPythonChart(code, [data |-> "df"], TRUE, q, engineOk)
    \/ \E code \in QueryCodes, q \in ScriptQueries, engineOk \in BOOLEAN :
           RunPythonChart(code, [data |-> "df"], TRUE, q, engineOk)

NextAgent ==
    \E question \in Questions, datasets \in DatasetChoices, reply \in AgentReplies :
        Answer(question, datasets, reply)

SpecStrip == Init /\ [][NextStrip]_vars
SpecGen == Init /\ [][NextGen]_vars
SpecExec == Init /\ [][NextExec]_vars
SpecQuery == Init /\ [][NextQuery]_vars
SpecAgent == Init /\ [][NextAgent]_vars

----------------------------------------------------------------------------
(* The claims *)

\* The name result as the script's namespace resolves it when the script
\* ends: the locals first, then the globals.
BoundResult(run) ==
    IF "result" \in DOMAIN run.loc THEN run.loc["result"]
    ELSE IF "result" \in DOMAIN run.glob THEN run.glob["result"]
    ELSE None

\* C1: a script that runs to its end and leaves result bound to a
\* ChartResult makes run_python_chart return that very object; one that
\* leaves result unbound or bound to something else makes it raise
\* RuntimeError.
C1_ResultContract ==
    (lastRun.execs = 1 /\ lastRun.scriptExc = "") =>
        IF BoundResult(lastRun).type = "ChartResult"
        THEN lastRun.outcome = "returned" /\ lastRun.value = BoundResult(lastRun)
        ELSE lastRun.outcome = "RuntimeError"

\* C2: every call of run_python_chart ends by returning or by raising one
\* RuntimeError that carries the trace; nothing else reaches the caller and
\* the code is run at most once.
C2_SingleExecutionError ==
    /\ lastRun.outcome \in {"none", "returned", "RuntimeError"}
    /\ lastRun.execs <= 1
    /\ lastRun.outcome = "RuntimeError" => lastRun.trace # ""

\* The statement, its leading whitespace skipped, starts with the letters
\* of select in either case.
BeginsWithSelect(sql) ==
    \E k \in 0..Len(sql) :
        /\ \A i \in 1..k : sql[i] \in {" ", "\n"}
        /\ Len(sql) >= k + 6
        /\ \A j \in 1..6 :
               sql[k + j] \in {<<"s","e","l","e","c","t">>[j],
                               <<"S","E","L","E","C","T">>[j]}

\* C3: a statement that does not begin with select is refused with
\* ValueError and the engine is not called; one that does is handed to the
\* engine; every statement is one or the other.
C3_ReadOnly ==
    /\ \A i \in 1..Len(lastRun.refused) : ~BeginsWithSelect(lastRun.refused[i])
    /\ \A i \in 1..Len(lastRun.engine) : BeginsWithSelect(lastRun.engine[i])
    /\ lastRun.refused # <<>> =>
           /\ lastRun.engine = <<>>
           /\ lastRun.outcome = "RuntimeError"
           /\ lastRun.trace = "ValueError"
    /\ lastRun.execs = 1 => Len(lastRun.refused) + Len(lastRun.engine) = 1

\* C3 witness: a statement that holds select, but not at its start, was
\* refused.
C3_Witness ==
    /\ lastRun.refused # <<>>
    /\ \E i \in 1..Len(lastRun.refused[1]) :
           BeginsWithSelect(Drop(lastRun.refused[1], i))

\* The question holds a continuation keyword, in whatever case.
HasKeyword(question) ==
    \E kw \in continuation_keywords :
        \E i \in 0..(Len(question) - Len(kw)) :
            \A j \in 1..Len(kw) : question[i + j] \in {kw[j], UpperChar(kw[j])}

\* The turns the call works with: the prior history when the question
\* continues it, nothing otherwise, then the new user turn.
TurnsOf(seen) ==
    Append(IF HasKeyword(seen.question) THEN seen.before ELSE <<>>,
           [role |-> <<"u","s","e","r">>, content |-> seen.question])

LastTurns(turns, n) ==
    IF Len(turns) <= n THEN turns ELSE SubSeq(turns, Len(turns) - n + 1, Len(turns))

PromptLine(turn) ==
    (IF turn.role = <<"u","s","e","r">>
     THEN <<"U","S","E","R">>
     ELSE <<"A","S","S","I","S","T","A","N","T">>)
    \o <<":", " ">> \o turn.content \o <<"\n">>

RECURSIVE PromptOf(_)
PromptOf(turns) ==
    IF turns = <<>> THEN <<>> ELSE PromptLine(Head(turns)) \o PromptOf(Tail(turns))

\* C4: without a continuation keyword the history restarts at the new user
\* turn and the prompt holds that turn alone; with one, the prior turns
\* stay and the prompt holds the last 4 turns, the new one included, in
\* order.
C4_HistoryWindow ==
    lastAnswer.outcome # "none" =>
        /\ Len(history) >= Len(TurnsOf(lastAnswer))
        /\ SubSeq(history, 1, Len(TurnsOf(lastAnswer))) = TurnsOf(lastAnswer)
        /\ lastAnswer.prompt = PromptOf(LastTurns(TurnsOf(lastAnswer), 4))

\* C4 witness: a continuing question, written with a capital, asked on a
\* history of 4 turns or more.
C4_Witness ==
    /\ lastAnswer.outcome # "none"
    /\ HasKeyword(lastAnswer.question)
    /\ lastAnswer.question # Lower(lastAnswer.question)
    /\ Len(lastAnswer.before) >= 4

C5_State ==
    /\ lastAnswer.outcome = "raised" => history = TurnsOf(lastAnswer)
    /\ lastAnswer.outcome # "none" =>
           (lastAnswer.outcome = "raised"
               <=> (lastGen.outcome = "raised" \/ lastRun.outcome # "returned"))

C5_Step ==
    (/\ lastAnswer.outcome = "raised"
     /\ HasKeyword(lastAnswer'.question)
     /\ lastAnswer'.before = history
     /\ Len(history') > Len(history))
    => /\ history'[Len(history)].role = <<"u","s","e","r">>
       /\ history'[Len(history) + 1].role = <<"u","s","e","r">>

\* C5: when generate or run_python_chart fails the call raises, the user
\* turn stays the last turn of the history and no assistant turn follows
\* it; a continuing question asked next leaves two user turns in a row.
C5_FailedTurnKept == []C5_State /\ [][C5_Step]_vars

\* C5 witness: a failed call on a history that already ended with the user
\* turn of a failed call.
C5_Witness ==
    /\ lastAnswer.outcome = "raised"
    /\ Len(history) >= 2
    /\ history[Len(history)].role = User
    /\ history[Len(history) - 1].role = User

\* C6: generate never returns empty code; a failed call, a reply without
\* content and an empty reply make it raise.
C6_NoEmptyCode ==
    /\ lastGen.outcome = "returned" => lastGen.code # <<>>
    /\ (lastGen.outcome # "none"
          /\ (lastGen.reply.kind # "text" \/ lastGen.reply.text = <<>>))
       => lastGen.outcome = "raised"

\* C7: no import statement and no call of open succeeds in any script, and
\* a script that starts with one ends in a RuntimeError whose trace names
\* the failed lookup.
C7_NoImportNoFile ==
    /\ lastRun.imported = <<>>
    /\ lastRun.disk = <<>>
    /\ (lastRun.execs = 1 /\ lastRun.code # <<>>
          /\ lastRun.code[1] \in {S_IMPORT, S_OPEN})
       => /\ lastRun.outcome = "RuntimeError"
          /\ lastRun.trace \in {"NameError", "ImportError"}

\* C8: stripping the result of _strip_code_fences again changes nothing.
C8_Idempotent ==
    lastStrip.called => _strip_code_fences(lastStrip.out) = lastStrip.out

HistoryAtPrompt ==
    IF lastAnswer.outcome = "returned"
    THEN SubSeq(history, 1, Len(history) - 1)
    ELSE history

C10_FreshEnvironment ==
    lastRun.execs = 1 =>
        /\ lastRun.startBlt = InitialBuiltins
        /\ lastRun.tables = {"data"}

====
